---- MODULE Spec2Model ----
(***************************************************************************)
(* Model of the petpet index builder: the font filter, the directory       *)
(* hasher filesMd5 (utils), and one run of the entry point (main.ts) with  *)
(* buildOldTemplateIndex and buildTemplateIndex (template-builder.ts).     *)
(*                                                                         *)
(* JavaScript strings are modelled as sequences of one-character strings,  *)
(* so that toLowerCase, the regular expression and '+' are computed.       *)
(***************************************************************************)
EXTENDS Integers, Sequences, FiniteSets, TLC

VARIABLES
    \* ---- font filter (one file name through both filters)
    fName,          \* the directory entry's name
    fKey,           \* "todo" | "kept" | "dropped" : buildTemplateIndex's filter
    fList,          \* "todo" | "kept" | "dropped" : buildOldTemplateIndex's filter
    \* ---- filesMd5 (one call on a root directory)
    hList,          \* directory path -> set of entry names (as readdir returned)
    hNode,          \* entry path -> what stat and the file's bytes are
    hPc,            \* path -> position of the call / of the entry's callback
    hResult,        \* directory path -> the call's `result` object
    \* ---- one run of main
    mainPc,         \* position of the entry point
    oldResult,      \* what buildOldTemplateIndex returned
    fontsDir,       \* fonts directory: file name -> font file
    buildPc,        \* position of buildTemplateIndex
    fontPc,         \* font file name -> position of its callback
    fontErr,        \* font file name -> why its callback rejected
    fontNameMap,    \* the Map fontNameMap
    fontSets,       \* history: number of fontNameMap.set calls so far
    resultFontObj,  \* the object resultFontObj
    templatesDir,   \* templates directory: id -> entry
    tplPc,          \* id -> position of its callback
    tplResult,      \* id -> what its callback resolved to
    lookedUp,       \* history: ids whose font dependency lookup ran
    setsAtLookup,   \* history: fontSets at the first lookup
    manifest,       \* the object serialised into petpet-index.json
    written         \* sequence of output files written so far

filterVars == <<fName, fKey, fList>>
hashVars == <<hList, hNode, hPc, hResult>>
buildVars == <<mainPc, oldResult, fontsDir, buildPc, fontPc, fontErr, fontNameMap,
               fontSets, resultFontObj, templatesDir, tplPc, tplResult, lookedUp,
               setsAtLookup, manifest, written>>
vars == <<filterVars, hashVars, buildVars>>

(***************************************************************************)
(* Generic helpers                                                         *)
(***************************************************************************)
EmptyObj == <<>>

\* obj[key] = val on a plain object or Map
SetProp(obj, key, val) ==
    [k \in (DOMAIN obj) \cup {key} |-> IF k = key THEN val ELSE obj[k]]

Range(s) == {s[i] : i \in DOMAIN s}

\* [...new Set(seq)]: first occurrences, in order
RECURSIVE Dedup(_)
Dedup(s) ==
    IF s = <<>> THEN <<>>
    ELSE LET init == Dedup(SubSeq(s, 1, Len(s) - 1))
             last == s[Len(s)]
         IN IF last \in Range(init) THEN init ELSE Append(init, last)

RECURSIVE SumOver(_, _)
SumOver(S, f) ==
    IF S = {} THEN 0
    ELSE LET x == CHOOSE y \in S : TRUE IN f[x] + SumOver(S \ {x}, f)

\* JavaScript's undefined and null
Undefined == <<"undefined">>
Null == <<"null">>

(***************************************************************************)
(* Strings                                                                 *)
(***************************************************************************)
LowerOf == [c \in {"A", "B", "T", "F"} |->
               CASE c = "A" -> "a" [] c = "B" -> "b" [] c = "T" -> "t" [] c = "F" -> "f"]

ToLowerChar(c) == IF c \in DOMAIN LowerOf THEN LowerOf[c] ELSE c

\* String.prototype.toLowerCase
ToLowerCase(s) == [i \in 1..Len(s) |-> ToLowerChar(s[i])]

LineTerminators == {"\n", "\r"}

\* s has the literal lit at position i
LitAt(s, i, lit) ==
    /\ i + Len(lit) - 1 <= Len(s)
    /\ \A j \in 1..Len(lit) : s[i + j - 1] = lit[j]

FontExts == { <<"w","o","f","f">>, <<"e","o","t">>, <<"w","o","f","f","2">>, <<"t","t","f">> }

\* font.match(/.+\.(woff|eot|woff2|ttf)/): the pattern is not anchored, so it
\* matches anywhere in the name: one or more characters other than line
\* terminators, a dot, one of the alternatives.
MatchFontRegex(s) ==
    \E i \in 2..Len(s) :
        /\ s[i - 1] \notin LineTerminators
        /\ s[i] = "."
        /\ \E ext \in FontExts : LitAt(s, i + 1, ext)

(***************************************************************************)
(* Font filter: one directory entry through the two filters                *)
(***************************************************************************)
MaxSegs == 3

Segments == { <<>>, <<"a">>, <<"t","t","f">>, <<"w","o","f","f">>, <<"w","o","f","f","2">>,
              <<"w","o","f","f","x">>, <<"e","o","t">>, <<"T","T","F">>, <<"b","a","k">> }

RECURSIVE JoinDots(_)
JoinDots(segs) ==
    IF Len(segs) = 1 THEN segs[1]
    ELSE JoinDots(SubSeq(segs, 1, Len(segs) - 1)) \o <<".">> \o segs[Len(segs)]

FileNames ==
    { JoinDots(segs) : segs \in UNION { [1..n -> Segments] : n \in 1..MaxSegs } } \ { <<>> }

FilterIdle == fName = <<>> /\ fKey = "idle" /\ fList = "idle"

InitFilter ==
    /\ fName \in FileNames
    /\ fKey = "todo"
    /\ fList = "todo"

\* template-builder.ts:30-31
FilterFonts ==
    /\ fKey = "todo"
    /\ fKey' = IF MatchFontRegex(fName) THEN "kept" ELSE "dropped"
    /\ UNCHANGED <<fName, fList>>

\* main.ts:47-48 (buildOldTemplateIndex)
FilterFontList ==
    /\ fList = "todo"
    /\ fList' = IF MatchFontRegex(fName) THEN "kept" ELSE "dropped"
    /\ UNCHANGED <<fName, fKey>>

(***************************************************************************)
(* filesMd5: one call on a root directory.  The directory tree is what     *)
(* readdir and stat return while the walk proceeds; it is recorded in      *)
(* hList and hNode.  A path is a sequence of entry names from the root.    *)
(***************************************************************************)
MaxDepth == 3
MaxEntries == 5

Names == { <<"a">>, <<"b">> }
Bytes == { <<"x">>, <<"y", "y">> }
Nodes == [kind : {"file"}, bytes : Bytes] \cup [kind : {"dir"}, bytes : {<<>>}]

Root == <<>>
Parent(p) == SubSeq(p, 1, Len(p) - 1)
Base(p) == p[Len(p)]
Children(list, d) == { Append(d, n) : n \in list[d] }

\* utils md5(): the digest of the bytes read from the stream (no two of the
\* model's files collide)
md5(bytes) == <<"md5", bytes>>

NewResult == [resource |-> EmptyObj, size |-> 0]

\* the directory branch with the child's keys taken over as they are
MergeChildNoPrefix(result, file, childHashes) ==
    [resource |->
        [k \in (DOMAIN result.resource) \cup (DOMAIN childHashes.resource) |->
            IF k \in DOMAIN childHashes.resource
            THEN childHashes.resource[k] ELSE result.resource[k]],
     size |-> result.size + childHashes.size]

\* the directory branch of the entry callback, after `await filesMd5(fullPath)`
MergeChild(result, file, childHashes) ==
    LET key(name) == file \o <<"/">> \o name
        added == { key(name) : name \in DOMAIN childHashes.resource }
    IN [resource |->
            [k \in (DOMAIN result.resource) \cup added |->
                IF k \in added
                THEN childHashes.resource[CHOOSE name \in DOMAIN childHashes.resource : key(name) = k]
                ELSE result.resource[k]],
        size |-> result.size + childHashes.size]

\* the file branch of the entry callback, after `await md5(fullPath)`
AddFile(result, file, node) ==
    [resource |-> SetProp(result.resource, file, md5(node.bytes)),
     size |-> result.size + Len(node.bytes)]

\* The entry callback of c has resolved.  When that was the last pending entry
\* of its directory, Promise.all resolves, filesMd5(directory) returns and the
\* callback awaiting it merges the result into its own directory, and so on up.
RECURSIVE Settle(_, _, _, _)
Settle(pc, res, list, c) ==
    IF c = Root THEN [pc |-> pc, res |-> res]
    ELSE LET d == Parent(c) IN
         IF pc[d] = "join" /\ \A k \in Children(list, d) : pc[k] = "done"
         THEN IF d = Root
              THEN [pc |-> [pc EXCEPT ![d] = "returned"], res |-> res]
              ELSE Settle([pc EXCEPT ![d] = "done"],
                          [res EXCEPT ![Parent(d)] = MergeChild(res[Parent(d)], Base(d), res[d])],
                          list, d)
         ELSE [pc |-> pc, res |-> res]

\* The callback of c (or the call filesMd5(c)) has rejected: the Promise.all of
\* its directory rejects at once, unless it already has, and so on up.
RECURSIVE Reject(_, _)
Reject(pc, c) ==
    IF c = Root THEN [pc EXCEPT ![c] = "rejected"]
    ELSE LET d == Parent(c)
             pc1 == [pc EXCEPT ![c] = "failed"]
         IN IF pc[d] = "join" THEN Reject(pc1, d) ELSE pc1

HashIdle == hList = <<>> /\ hNode = <<>> /\ hPc = <<>> /\ hResult = <<>>

\* filesMd5(root) up to `await fs.promises.readdir(dirPath)`
InitHash ==
    /\ hList = <<>>
    /\ hNode = <<>>
    /\ hPc = (Root :> "readdir")
    /\ hResult = (Root :> NewResult)

Entries == UNION { Children(hList, d) : d \in DOMAIN hList }

\* readdir of d completes; files.map starts every entry's callback (to its stat)
ReaddirDone(d) ==
    /\ hPc[d] = "readdir"
    /\ \E names \in SUBSET Names :
         /\ Cardinality(Entries) + Cardinality(names) <= MaxEntries
         /\ hList' = SetProp(hList, d, names)
         /\ LET kids == { Append(d, n) : n \in names }
                pc1 == [p \in (DOMAIN hPc) \cup kids |->
                           IF p \in kids THEN "stat" ELSE IF p = d THEN "join" ELSE hPc[p]]
            IN IF names = {}
               THEN IF d = Root
                    THEN hPc' = [pc1 EXCEPT ![d] = "returned"] /\ hResult' = hResult
                    ELSE LET s == Settle([pc1 EXCEPT ![d] = "done"],
                                         [hResult EXCEPT ![Parent(d)] =
                                             MergeChild(hResult[Parent(d)], Base(d), hResult[d])],
                                         hList', d)
                         IN hPc' = s.pc /\ hResult' = s.res
               ELSE hPc' = pc1 /\ hResult' = hResult
    /\ UNCHANGED hNode

\* stat of entry c completes
StatDone(c) ==
    /\ hPc[c] = "stat"
    /\ \E node \in Nodes :
         /\ (Len(c) >= MaxDepth => node.kind = "file")
         /\ hNode' = SetProp(hNode, c, node)
         /\ IF node.kind = "dir"
            THEN /\ hPc' = [hPc EXCEPT ![c] = "readdir"]
                 /\ hResult' = SetProp(hResult, c, NewResult)
            ELSE /\ hPc' = [hPc EXCEPT ![c] = "md5"]
                 /\ hResult' = hResult
    /\ UNCHANGED hList

\* the read stream of file c ends
Md5Done(c) ==
    /\ hPc[c] = "md5"
    /\ LET s == Settle([hPc EXCEPT ![c] = "done"],
                       [hResult EXCEPT ![Parent(c)] = AddFile(hResult[Parent(c)], Base(c), hNode[c])],
                       hList, c)
       IN hPc' = s.pc /\ hResult' = s.res
    /\ UNCHANGED <<hList, hNode>>

\* readdir, stat or the read stream of c fails
IoError(c) ==
    /\ hPc[c] \in {"readdir", "stat", "md5"}
    /\ hPc' = Reject(hPc, c)
    /\ UNCHANGED <<hList, hNode, hResult>>

(***************************************************************************)
(* The build: data read from the file system                               *)
(***************************************************************************)
MaxFonts == 2

\* entries the fonts directory may hold, in the order readdirSync lists them
FontListing == << <<"a",".","t","t","f">>, <<"b",".","w","o","f","f","2">>, <<"c",".","T","T","F">> >>

\* what fontkit reads from a font file (a name the file lacks is null)
FontFiles ==
    { [bytes |-> <<"x">>, familyName |-> <<"A","b">>, fullName |-> <<"A","b","B">>,
       postscriptName |-> <<"a","b">>, subfamilyName |-> <<"B">>],
      [bytes |-> <<"y","y">>, familyName |-> <<"a","b">>, fullName |-> <<"a","b">>,
       postscriptName |-> <<"A","B">>, subfamilyName |-> <<"b">>],
      [bytes |-> <<"x">>, familyName |-> <<"B","a">>, fullName |-> <<"B","a">>,
       postscriptName |-> <<"b","a">>, subfamilyName |-> <<"a">>],
      [bytes |-> <<"x">>, familyName |-> <<"B","a">>, fullName |-> Null,
       postscriptName |-> <<"b","a">>, subfamilyName |-> <<"B">>] }

FontDirs ==
    UNION { [S -> FontFiles] : S \in { T \in SUBSET Range(FontListing) : Cardinality(T) <= MaxFonts } }

\* elements of template.json
Text(font) == [type |-> "text", font |-> font]
Image(font) == [type |-> "image", font |-> font]
ElementLists ==
    { << Text(<<"A","B">>) >>,
      << Text(<<"a","b">>), Text(<<"A","b">>), Image(<<"B","A">>), Text(Undefined), Text(<<>>) >>,
      << Text(<<"B","b">>) >>,
      << Text(<<"a","B">>), Text(<<"b","A">>) >> }

\* the text array of data.json
OldTextLists ==
    { << [font |-> <<"A","B">>] >>,
      << [font |-> <<"B","b">>], [font |-> Undefined] >> }

Absent == [present |-> FALSE]
Malformed == [present |-> TRUE, json |-> "malformed"]
TemplateJson(elements) ==
    [present |-> TRUE, json |-> "ok", metadata |-> [apiVersion |-> 100], elements |-> elements]
DataJson(text) ==
    [present |-> TRUE, json |-> "ok", alias |-> << <<"f">> >>, inRandomList |-> Undefined,
     hidden |-> Undefined, text |-> text]

\* definition files without the optional array
TemplateJsonNoElements == [present |-> TRUE, json |-> "ok", metadata |-> [apiVersion |-> 100]]
DataJsonNoText ==
    [present |-> TRUE, json |-> "ok", alias |-> << <<"f">> >>, inRandomList |-> Undefined,
     hidden |-> Undefined]

TemplateJsons == {TemplateJsonNoElements} \cup { TemplateJson(e) : e \in ElementLists }
DataJsons == {DataJsonNoText} \cup { DataJson(t) : t \in OldTextLists }

SomeTemplateJson == TemplateJson(<< Text(<<"A","B">>) >>)
SomeDataJson == DataJson(<< [font |-> <<"A","B">>] >>)

\* What main.js does when evaluated: "registers" calls register with a callback
\* that returns metadata, "silent" runs to completion without calling register
\* (metadata stays undefined), "throws" raises an exception.
ScriptKinds == {"registers", "silent", "throws"}

\* Entries of the templates directory.  A definition file the code never
\* reads (because an earlier one is present) is given one content only.
TemplateEntries ==
    { [kind |-> "file"] }
    \cup [kind : {"dir"}, script : ScriptKinds,
          template : {Absent, SomeTemplateJson}, old : {Absent, SomeDataJson}]
    \cup [kind : {"dir"}, script : {"none"},
          template : {Malformed} \cup TemplateJsons,
          old : {Absent, SomeDataJson}]
    \cup [kind : {"dir"}, script : {"none"}, template : {Absent},
          old : {Absent, Malformed} \cup DataJsons]

TemplateIds == { <<"t","1">>, <<"t","2">> }

TemplateDirs == UNION { [S -> TemplateEntries] : S \in SUBSET TemplateIds }

\* template-builder.ts:7-9
SCRIPT_NAME == <<"m","a","i","n",".","j","s">>
TEMPLATE_NAME == <<"t","e","m","p","l","a","t","e",".","j","s","o","n">>
OLD_TEMPLATE_NAME == <<"d","a","t","a",".","j","s","o","n">>

\* template-builder.ts:11-18
runtimeInfo ==
    [version |-> 101, scriptApiVersion |-> 100, platform |-> "jvm", jsEngine |-> "nashorn",
     drawingApi |-> "awt", features |-> <<"http-server", "qq-bot">>]

\* the files of a template directory (it holds no subdirectory here)
DirFiles(entry) ==
    { f \in {SCRIPT_NAME, TEMPLATE_NAME, OLD_TEMPLATE_NAME} :
        \/ f = SCRIPT_NAME /\ entry.script # "none"
        \/ f = TEMPLATE_NAME /\ entry.template.present
        \/ f = OLD_TEMPLATE_NAME /\ entry.old.present }

FileNode(f) == [kind |-> "file", bytes |-> IF f = TEMPLATE_NAME THEN <<"y","y">> ELSE <<"x">>]

\* filesMd5 on a directory of plain files: every entry takes the file branch
RECURSIVE HashFiles(_, _)
HashFiles(result, files) ==
    IF files = {} THEN result
    ELSE LET f == CHOOSE g \in files : TRUE
         IN HashFiles(AddFile(result, f, FileNode(f)), files \ {f})

FilesMd5OfTemplate(entry) == HashFiles(NewResult, DirFiles(entry))

(***************************************************************************)
(* The build: pure functions                                               *)
(***************************************************************************)
GetFontNames(font) ==
    << font.familyName, font.fullName, font.postscriptName, font.subfamilyName >>

\* getFontInfo keeping the names as the font file spells them
getFontInfoNoLowerCase(font) ==
    IF Null \in Range(GetFontNames(font))
    THEN [ok |-> FALSE, error |-> "TypeError"]
    ELSE [ok |-> TRUE, name |-> Dedup(GetFontNames(font))]

\* fonts-info getFontInfo, once fontkit.open has resolved: toLowerCase on a
\* null name raises a TypeError, which rejects the promise
getFontInfo(font) ==
    IF Null \in Range(GetFontNames(font))
    THEN [ok |-> FALSE, error |-> "TypeError"]
    ELSE [ok |-> TRUE,
          name |-> Dedup([i \in 1..4 |-> ToLowerCase(GetFontNames(font)[i])])]

\* info.name.forEach(n => fontNameMap.set(n, font))
RECURSIVE SetNames(_, _, _)
SetNames(map, names, font) ==
    IF names = <<>> THEN map
    ELSE SetNames(SetProp(map, Head(names), font), Tail(names), font)

\* Map.prototype.get
MapGet(map, key) == IF key \in DOMAIN map THEN map[key] ELSE Undefined

\* a value that passes `&& e.font` / `t.font`
Truthy(v) == v # Undefined /\ v # Null /\ v # <<>>

IsTextWithFont(e) == e.type = "text" /\ Truthy(e.font)
HasFont(t) == Truthy(t.font)

MapFonts(fontMap, items) == [i \in 1..Len(items) |-> MapGet(fontMap, ToLowerCase(items[i].font))]
MapFontsNoLowerCase(fontMap, items) == [i \in 1..Len(items) |-> MapGet(fontMap, items[i].font)]

\* the lookup with the font value as the template spells it
searchTemplateDependencyFontNoLowerCase(fontMap, template) ==
    IF "elements" \notin DOMAIN template THEN <<>>
    ELSE Dedup(MapFontsNoLowerCase(fontMap, SelectSeq(template.elements, IsTextWithFont)))

\* template-builder.ts:144-149
searchTemplateDependencyFont(fontMap, template) ==
    IF "elements" \notin DOMAIN template THEN <<>>
    ELSE Dedup(MapFonts(fontMap, SelectSeq(template.elements, IsTextWithFont)))

\* template-builder.ts:151-156
searchOldTemplateDependencyFont(fontMap, template) ==
    IF "text" \notin DOMAIN template THEN <<>>
    ELSE Dedup(MapFonts(fontMap, SelectSeq(template.text, HasFont)))

\* `if (dependentFonts.length) res.dependentFonts = dependentFonts`
WithDependentFonts(res, dependentFonts) ==
    IF Len(dependentFonts) # 0
    THEN [type |-> res.type, metadata |-> res.metadata, resource |-> res.resource,
          size |-> res.size, dependentFonts |-> dependentFonts]
    ELSE res

\* the branches with template.json tested before main.js
ClassifyTemplateFirst(entry) ==
    IF entry.kind = "file" THEN "file"
    ELSE IF entry.template.present THEN "template"
    ELSE IF entry.script # "none" THEN "script"
    ELSE IF entry.old.present THEN "old"
    ELSE "none"

\* Which branch of the template callback a directory entry takes:
\* template-builder.ts:48-117
Classify(entry) ==
    IF entry.kind = "file" THEN "file"
    ELSE IF entry.script # "none" THEN "script"
    ELSE IF entry.template.present THEN "template"
    ELSE IF entry.old.present THEN "old"
    ELSE "none"

\* metadata = callback(runtimeInfo) of a registering script
ScriptMetadata(info) == [apiVersion |-> info.scriptApiVersion, engine |-> info.jsEngine]

\* the script branch without `if (!metadata) return null`
ScriptBranchKeepsSilent(entry) ==
    IF entry.script = "throws" THEN "failed" ELSE "hash"

\* the script branch up to its first await: eval, then `if (!metadata) return null`
ScriptBranch(entry) ==
    IF entry.script = "throws" THEN "failed"
    ELSE IF entry.script = "silent" THEN "null"
    ELSE "hash"

\* `require` of a definition file
JsonBranch(file) == IF file.json = "malformed" THEN "failed" ELSE "hash"

\* The template callback up to its first await: "null" and "undefined" are
\* what it resolved to, "failed" is a rejection, "hash" is awaiting filesMd5.
TemplateSync(entry) ==
    LET c == Classify(entry) IN
    CASE c = "file" -> "null"
      [] c = "script" -> ScriptBranch(entry)
      [] c = "template" -> JsonBranch(entry.template)
      [] c = "old" -> JsonBranch(entry.old)
      [] c = "none" -> "undefined"

\* What the template callback resolves to once filesMd5 has resolved (the id
\* field is left out: it is deleted again when the map is built).
TemplateEntry(entry, fontMap) ==
    LET c == Classify(entry)
        h == FilesMd5OfTemplate(entry)
    IN CASE c = "script" ->
              [type |-> "script", metadata |-> ScriptMetadata(runtimeInfo),
               resource |-> h.resource, size |-> h.size]
         [] c = "template" ->
              WithDependentFonts(
                  [type |-> "template", metadata |-> entry.template.metadata,
                   resource |-> h.resource, size |-> h.size],
                  searchTemplateDependencyFont(fontMap, entry.template))
         [] c = "old" ->
              WithDependentFonts(
                  [type |-> "template",
                   metadata |-> [apiVersion |-> 0, alias |-> entry.old.alias,
                                 inRandomList |-> entry.old.inRandomList,
                                 hidden |-> entry.old.hidden],
                   resource |-> h.resource, size |-> h.size],
                  searchOldTemplateDependencyFont(fontMap, entry.old))

\* the font files the filter keeps
SelectedFonts(dir) == { f \in DOMAIN dir : MatchFontRegex(f) }

\* the order in which `results` is iterated: main.ts:7-13
OutputFiles == << "index.json", "index.map.json", "petpet-index.json" >>

(***************************************************************************)
(* The build: one run of the entry point                                   *)
(***************************************************************************)
InitBuild ==
    /\ mainPc = "start" /\ oldResult = <<>> /\ fontsDir = <<>> /\ buildPc = "idle"
    /\ fontPc = <<>> /\ fontErr = <<>> /\ fontNameMap = <<>> /\ fontSets = 0
    /\ resultFontObj = <<>> /\ templatesDir = <<>> /\ tplPc = <<>> /\ tplResult = <<>>
    /\ lookedUp = {} /\ setsAtLookup = 0 /\ manifest = <<>> /\ written = <<>>

\* main.ts:8 buildOldTemplateIndex(config): synchronous; it throws on an I/O
\* failure or a malformed data.json.  Of its result only fontList is modelled.
RunOldBuilder ==
    /\ mainPc = "start"
    /\ \E dir \in FontDirs, ok \in BOOLEAN :
         /\ fontsDir' = dir
         /\ IF ok
            THEN /\ oldResult' = [fontList |-> SelectSeq(FontListing,
                                       LAMBDA f : f \in DOMAIN dir /\ MatchFontRegex(f))]
                 /\ mainPc' = "oldBuilt"
            ELSE /\ oldResult' = oldResult
                 /\ mainPc' = "failed"
    /\ UNCHANGED <<buildPc, fontPc, fontErr, fontNameMap, fontSets, resultFontObj, templatesDir,
                   tplPc, tplResult, lookedUp, setsAtLookup, manifest, written>>

\* template-builder.ts:28-44 up to `await Promise.all(fonts)`: every font's
\* callback runs to its first await; readFileSync may throw, which rejects
\* that callback's promise and so Promise.all and the build.
StartFonts ==
    /\ mainPc = "oldBuilt"
    /\ LET fonts == SelectedFonts(fontsDir) IN
       \E unreadable \in SUBSET fonts :
         /\ fontPc' = [f \in fonts |-> IF f \in unreadable THEN "failed" ELSE "info"]
         /\ fontErr' = [f \in fonts |-> IF f \in unreadable THEN "io" ELSE "none"]
         /\ IF unreadable # {}
            THEN buildPc' = "rejected" /\ mainPc' = "failed"
            ELSE /\ buildPc' = IF fonts = {} THEN "fontsDone" ELSE "fonts"
                 /\ mainPc' = "awaitBuild"
    /\ UNCHANGED <<oldResult, fontsDir, fontNameMap, fontSets, resultFontObj, templatesDir,
                   tplPc, tplResult, lookedUp, setsAtLookup, manifest, written>>

\* the callback of font f rejects: Promise.all(fonts) rejects if still pending
FontReject(f, why) ==
    /\ fontPc' = [fontPc EXCEPT ![f] = "failed"]
    /\ fontErr' = [fontErr EXCEPT ![f] = why]
    /\ IF buildPc = "fonts"
       THEN buildPc' = "rejected" /\ mainPc' = "failed"
       ELSE UNCHANGED <<buildPc, mainPc>>
    /\ UNCHANGED <<fontNameMap, fontSets, resultFontObj>>

\* template-builder.ts:35-38: fontkit.open settles; on success the names are
\* indexed and md5(fontPath) is started
GetFontInfoDone(f) ==
    /\ f \in DOMAIN fontPc /\ fontPc[f] = "info"
    /\ \E opened \in BOOLEAN :
         LET info == getFontInfo(fontsDir[f]) IN
         IF ~opened THEN FontReject(f, "parse")
         ELSE IF ~info.ok THEN FontReject(f, info.error)
         ELSE /\ fontNameMap' = SetNames(fontNameMap, info.name, f)
              /\ fontSets' = fontSets + Len(info.name)
              /\ fontPc' = [fontPc EXCEPT ![f] = "md5"]
              /\ UNCHANGED <<fontErr, buildPc, mainPc, resultFontObj>>
    /\ UNCHANGED <<oldResult, fontsDir, templatesDir, tplPc, tplResult, lookedUp, setsAtLookup,
                   manifest, written>>

\* template-builder.ts:37-41: md5(fontPath) settles; the last font to finish
\* resolves Promise.all(fonts)
FontMd5Done(f) ==
    /\ f \in DOMAIN fontPc /\ fontPc[f] = "md5"
    /\ \E ok \in BOOLEAN :
         IF ~ok THEN FontReject(f, "io")
         ELSE /\ resultFontObj' = SetProp(resultFontObj, f,
                     [md5 |-> md5(fontsDir[f].bytes), size |-> Len(fontsDir[f].bytes),
                      name |-> getFontInfo(fontsDir[f]).name])
              /\ fontPc' = [fontPc EXCEPT ![f] = "done"]
              /\ buildPc' = IF buildPc = "fonts" /\ \A g \in DOMAIN fontPc : fontPc'[g] = "done"
                            THEN "fontsDone" ELSE buildPc
              /\ UNCHANGED <<fontErr, mainPc, fontNameMap, fontSets>>
    /\ UNCHANGED <<oldResult, fontsDir, templatesDir, tplPc, tplResult, lookedUp, setsAtLookup,
                   manifest, written>>

\* template-builder.ts:46-118 up to every template callback's first await
StartTemplatesBody ==
    /\ \E dir \in TemplateDirs :
         /\ templatesDir' = dir
         /\ tplPc' = [id \in DOMAIN dir |->
                         LET o == TemplateSync(dir[id])
                         IN IF o \in {"null", "undefined"} THEN "done" ELSE o]
         /\ tplResult' = [id \in DOMAIN dir |-> [tag |-> TemplateSync(dir[id])]]
         /\ IF \E id \in DOMAIN dir : TemplateSync(dir[id]) = "failed"
            THEN buildPc' = "rejected" /\ mainPc' = "failed"
            ELSE buildPc' = "templates" /\ mainPc' = mainPc
    /\ UNCHANGED <<oldResult, fontsDir, fontPc, fontErr, fontNameMap, fontSets, resultFontObj,
                   lookedUp, setsAtLookup, manifest, written>>

\* the templates started without awaiting Promise.all(fonts)
StartTemplatesNoAwait == buildPc \in {"fonts", "fontsDone"} /\ StartTemplatesBody

\* the code after `await Promise.all(fonts)`
StartTemplates == buildPc = "fontsDone" /\ StartTemplatesBody

\* filesMd5 of template id settles; on success the callback looks the fonts up
\* (template and legacy template) and resolves to the entry
TemplateHashDone(id) ==
    /\ id \in DOMAIN tplPc /\ tplPc[id] = "hash"
    /\ \E ok \in BOOLEAN :
         IF ~ok
         THEN /\ tplPc' = [tplPc EXCEPT ![id] = "failed"]
              /\ tplResult' = [tplResult EXCEPT ![id] = [tag |-> "failed"]]
              /\ IF buildPc = "templates"
                 THEN buildPc' = "rejected" /\ mainPc' = "failed"
                 ELSE UNCHANGED <<buildPc, mainPc>>
              /\ UNCHANGED <<lookedUp, setsAtLookup>>
         ELSE /\ tplPc' = [tplPc EXCEPT ![id] = "done"]
              /\ tplResult' = [tplResult EXCEPT ![id] =
                     [tag |-> "entry", entry |-> TemplateEntry(templatesDir[id], fontNameMap)]]
              /\ IF Classify(templatesDir[id]) \in {"template", "old"}
                 THEN /\ lookedUp' = lookedUp \cup {id}
                      /\ setsAtLookup' = IF lookedUp = {} THEN fontSets ELSE setsAtLookup
                 ELSE UNCHANGED <<lookedUp, setsAtLookup>>
              /\ UNCHANGED <<buildPc, mainPc>>
    /\ UNCHANGED <<oldResult, fontsDir, fontPc, fontErr, fontNameMap, fontSets, resultFontObj,
                   templatesDir, manifest, written>>

\* template-builder.ts:119-140 and main.ts:7-10: Promise.all resolves, the two
\* `then` callbacks build the manifest, main's await resumes
Assemble ==
    /\ buildPc = "templates"
    /\ \A id \in DOMAIN tplPc : tplPc[id] = "done"
    /\ LET kept == { id \in DOMAIN tplResult : tplResult[id].tag = "entry" }
       IN manifest' = [templatesPath |-> "templates",
                       templates |-> [id \in kept |-> tplResult[id].entry],
                       fontsPath |-> "fonts",
                       fonts |-> resultFontObj]
    /\ buildPc' = "resolved"
    /\ mainPc' = "writing"
    /\ UNCHANGED <<oldResult, fontsDir, fontPc, fontErr, fontNameMap, fontSets, resultFontObj,
                   templatesDir, tplPc, tplResult, lookedUp, setsAtLookup, written>>

\* a variant that writes whatever was built when the build has failed
WriteOutputsAlways ==
    /\ mainPc \in {"writing", "failed"} /\ oldResult # <<>> /\ written = <<>>
    /\ \E k \in 1..Len(OutputFiles) :
         /\ (mainPc = "failed" => k <= 2)
         /\ written' = SubSeq(OutputFiles, 1, k)
         /\ mainPc' = IF k = Len(OutputFiles) THEN "done" ELSE "failed"
    /\ UNCHANGED <<oldResult, fontsDir, buildPc, fontPc, fontErr, fontNameMap, fontSets,
                   resultFontObj, templatesDir, tplPc, tplResult, lookedUp, setsAtLookup, manifest>>

\* main.ts:11-13: the files are written in turn; a failing writeFileSync ends
\* the loop after the files written before it
WriteOutputs ==
    /\ mainPc = "writing"
    /\ \E k \in 0..Len(OutputFiles) :
         /\ written' = SubSeq(OutputFiles, 1, k)
         /\ mainPc' = IF k = Len(OutputFiles) THEN "done" ELSE "failed"
    /\ UNCHANGED <<oldResult, fontsDir, buildPc, fontPc, fontErr, fontNameMap, fontSets,
                   resultFontObj, templatesDir, tplPc, tplResult, lookedUp, setsAtLookup, manifest>>

Next ==
    \/ RunOldBuilder /\ UNCHANGED <<filterVars, hashVars>>
    \/ StartFonts /\ UNCHANGED <<filterVars, hashVars>>
    \/ \E f \in Range(FontListing) : GetFontInfoDone(f) /\ UNCHANGED <<filterVars, hashVars>>
    \/ \E f \in Range(FontListing) : FontMd5Done(f) /\ UNCHANGED <<filterVars, hashVars>>
    \/ StartTemplates /\ UNCHANGED <<filterVars, hashVars>>
    \/ \E id \in TemplateIds : TemplateHashDone(id) /\ UNCHANGED <<filterVars, hashVars>>
    \/ Assemble /\ UNCHANGED <<filterVars, hashVars>>
    \/ WriteOutputs /\ UNCHANGED <<filterVars, hashVars>>

\* one run of the entry point
Init == InitBuild /\ FilterIdle /\ HashIdle

Spec == Init /\ [][Next]_vars

BuildIdle ==
    /\ mainPc = "idle" /\ oldResult = <<>> /\ fontsDir = <<>> /\ buildPc = "idle"
    /\ fontPc = <<>> /\ fontErr = <<>> /\ fontNameMap = <<>> /\ fontSets = 0
    /\ resultFontObj = <<>> /\ templatesDir = <<>> /\ tplPc = <<>> /\ tplResult = <<>>
    /\ lookedUp = {} /\ setsAtLookup = 0 /\ manifest = <<>> /\ written = <<>>

NextFilter ==
    \/ FilterFonts /\ UNCHANGED <<hashVars, buildVars>>
    \/ FilterFontList /\ UNCHANGED <<hashVars, buildVars>>

\* one directory entry through the two font filters
InitFilterOnly == InitFilter /\ HashIdle /\ BuildIdle

SpecFilter == InitFilterOnly /\ [][NextFilter]_vars

NextHash ==
    \/ \E d \in DOMAIN hPc : ReaddirDone(d) /\ UNCHANGED <<filterVars, buildVars>>
    \/ \E c \in DOMAIN hPc : StatDone(c) /\ UNCHANGED <<filterVars, buildVars>>
    \/ \E c \in DOMAIN hPc : Md5Done(c) /\ UNCHANGED <<filterVars, buildVars>>
    \/ \E c \in DOMAIN hPc : IoError(c) /\ UNCHANGED <<filterVars, buildVars>>

\* one call of filesMd5
InitHashOnly == InitHash /\ FilterIdle /\ BuildIdle

SpecHash == InitHashOnly /\ [][NextHash]_vars

(***************************************************************************)
(* filesMd5 against an independent walk of the recorded tree               *)
(***************************************************************************)
\* the '/'-joined path of p relative to the root
RECURSIVE RelPath(_)
RelPath(p) ==
    IF Len(p) = 1 THEN p[1]
    ELSE RelPath(Parent(p)) \o <<"/">> \o Base(p)

RegularFiles == { p \in DOMAIN hNode : hNode[p].kind = "file" }
Directories == { p \in DOMAIN hNode : hNode[p].kind = "dir" }
FileSize == [p \in RegularFiles |-> Len(hNode[p].bytes)]

\* C1: when filesMd5 returns, whatever the order in which the entries'
\* operations completed, the resource map has exactly one entry per regular
\* file of the tree, keyed by its '/'-joined relative path and holding its
\* digest, no entry for a directory, and size is the sum of the files' sizes.
FilesMd5MatchesWalk ==
    hPc[Root] = "returned" =>
        LET r == hResult[Root] IN
        /\ DOMAIN r.resource = { RelPath(p) : p \in RegularFiles }
        /\ Cardinality(DOMAIN r.resource) = Cardinality(RegularFiles)
        /\ \A p \in RegularFiles : r.resource[RelPath(p)] = md5(hNode[p].bytes)
        /\ \A p \in Directories : RelPath(p) \notin DOMAIN r.resource
        /\ r.size = SumOver(RegularFiles, FileSize)

\* a returned call on a tree with a file at the root and a file of another
\* size in a subdirectory
FilesMd5Witness ==
    /\ hPc[Root] = "returned"
    /\ \E p, q \in RegularFiles :
         /\ Len(p) = 1 /\ Len(q) >= 2
         /\ hNode[p].bytes # hNode[q].bytes
    /\ hResult[Root].size >= 3

(***************************************************************************)
(* Properties of the font filter                                           *)
(***************************************************************************)
\* the last dot-separated segment of s is ext and a non-empty name precedes it
EndsWithExt(s, ext) ==
    /\ Len(s) >= Len(ext) + 2
    /\ s[Len(s) - Len(ext)] = "."
    /\ LitAt(s, Len(s) - Len(ext) + 1, ext)

HasFontExtension(s) == \E ext \in FontExts : EndsWithExt(s, ext)

\* C9: the font indexer and the legacy fontList keep a directory entry if and
\* only if its name ends with .woff, .eot, .woff2 or .ttf (last segment, case
\* sensitive, a non-empty name before it).
FontFilterSelectsByExtension ==
    /\ fKey \in {"kept", "dropped"} => (fKey = "kept" <=> HasFontExtension(fName))
    /\ fList \in {"kept", "dropped"} => (fList = "kept" <=> HasFontExtension(fName))

(***************************************************************************)
(* Properties of the build                                                 *)
(***************************************************************************)
IsDir(e) == e.kind = "dir"
Templates == manifest.templates

\* C2: in the manifest a directory with a registering main.js has type
\* 'script' whatever else it holds, a directory with template.json and no
\* main.js has type 'template' with template.json's metadata even if data.json
\* is present, and a directory with none of the three files, or a plain file,
\* has no entry.
ClassificationPrecedence ==
    buildPc = "resolved" =>
        \A id \in DOMAIN templatesDir :
            LET e == templatesDir[id] IN
            /\ (IsDir(e) /\ e.script = "registers") =>
                   /\ id \in DOMAIN Templates
                   /\ Templates[id].type = "script"
                   /\ Templates[id].metadata = ScriptMetadata(runtimeInfo)
            /\ (IsDir(e) /\ e.script = "none" /\ e.template.present) =>
                   /\ id \in DOMAIN Templates
                   /\ Templates[id].type = "template"
                   /\ Templates[id].metadata = e.template.metadata
            /\ (~IsDir(e) \/ (e.script = "none" /\ ~e.template.present /\ ~e.old.present)) =>
                   id \notin DOMAIN Templates

\* a resolved build with a directory holding all three files (script wins) and
\* a directory holding template.json and data.json (template.json wins)
ClassificationWitness ==
    /\ buildPc = "resolved"
    /\ \E i, j \in DOMAIN templatesDir :
         /\ IsDir(templatesDir[i]) /\ templatesDir[i].script = "registers"
         /\ templatesDir[i].template.present /\ templatesDir[i].old.present
         /\ Templates[i].type = "script"
         /\ IsDir(templatesDir[j]) /\ templatesDir[j].script = "none"
         /\ templatesDir[j].template.present /\ templatesDir[j].old.present
         /\ Templates[j].type = "template"

IsSilent(e) == IsDir(e) /\ e.script = "silent"

Without(dir, id) == [i \in (DOMAIN dir) \ {id} |-> dir[i]]

\* the templates mapping of a templates directory, given the font-name index
TemplatesOf(dir, fontMap) ==
    [i \in { j \in DOMAIN dir : TemplateSync(dir[j]) = "hash" } |-> TemplateEntry(dir[i], fontMap)]

\* C3: a directory whose main.js never registers resolves to no entry (also
\* with template.json or data.json present), never rejects the build, and
\* the templates mapping is the one of the directory tree without it.
SilentScriptSkipped ==
    /\ \A id \in DOMAIN templatesDir :
         IsSilent(templatesDir[id]) => tplPc[id] = "done" /\ tplResult[id].tag = "null"
    /\ buildPc = "rejected" =>
         \/ \E f \in DOMAIN fontPc : fontPc[f] = "failed"
         \/ \E id \in DOMAIN tplPc : tplPc[id] = "failed" /\ ~IsSilent(templatesDir[id])
    /\ buildPc = "resolved" =>
         \A id \in DOMAIN templatesDir :
            IsSilent(templatesDir[id]) =>
                /\ id \notin DOMAIN Templates
                /\ Templates = TemplatesOf(Without(templatesDir, id), fontNameMap)

\* a resolved build with a silent main.js next to a template.json, and
\* another directory that has its entry
SilentScriptWitness ==
    /\ buildPc = "resolved"
    /\ \E i, j \in DOMAIN templatesDir :
         /\ IsSilent(templatesDir[i]) /\ templatesDir[i].template.present
         /\ i \notin DOMAIN Templates
         /\ j \in DOMAIN Templates

\* strings over the letters of the font names, up to the longest font name
MaxRefLen == 3
FontRefs == UNION { [1..n -> {"A", "a", "B", "b"}] : n \in 1..MaxRefLen }

CasePairs == { <<"A", "a">>, <<"B", "b">> }
SameLetter(c, d) == c = d \/ <<c, d>> \in CasePairs \/ <<d, c>> \in CasePairs
DiffersOnlyInCase(a, b) == Len(a) = Len(b) /\ \A i \in 1..Len(a) : SameLetter(a[i], b[i])

\* every string that differs from s only in letter case
RECURSIVE CaseVariants(_)
CaseVariants(s) ==
    IF s = <<>> THEN { <<>> }
    ELSE { Append(v, c) : v \in CaseVariants(SubSeq(s, 1, Len(s) - 1)),
                          c \in { d \in {"A", "a", "B", "b"} : SameLetter(d, s[Len(s)]) } }

NewDeps(r) == searchTemplateDependencyFont(fontNameMap, TemplateJson(<< Text(r) >>))
OldDeps(r) == searchOldTemplateDependencyFont(fontNameMap, DataJson(<< [font |-> r] >>))

\* C4: for every font-name index the run builds (the index only changes
\* while the fonts are being indexed, so these states show every value it
\* takes), two templates naming fonts that differ only in letter case get the
\* same dependentFonts from both search functions, and every name of an
\* indexed font is found, under any casing, as a font file that has this name.
FontLookupCaseInsensitive ==
    buildPc \in {"fonts", "fontsDone"} =>
        /\ \A r1 \in FontRefs : \A r2 \in CaseVariants(r1) :
              NewDeps(r1) = NewDeps(r2) /\ OldDeps(r1) = OldDeps(r2)
        /\ \A f \in DOMAIN fontPc :
              fontPc[f] \in {"md5", "done"} =>
                \A n \in Range(GetFontNames(fontsDir[f])) : \A r \in CaseVariants(n) :
                        /\ Len(NewDeps(r)) = 1 /\ NewDeps(r) = OldDeps(r)
                        /\ NewDeps(r)[1] \in DOMAIN fontPc
                        /\ \E m \in Range(GetFontNames(fontsDir[NewDeps(r)[1]])) :
                              DiffersOnlyInCase(m, n)

\* the index is complete, holds a font whose family name has an upper-case
\* letter, and that font is found under two other casings of the name
FontLookupWitness ==
    /\ buildPc = "fontsDone"
    /\ \E f \in DOMAIN resultFontObj :
         /\ fontsDir[f].familyName = <<"A", "b">>
         /\ NewDeps(<<"a", "B">>) = <<f>>
         /\ NewDeps(<<"A", "B">>) = <<f>>
         /\ OldDeps(<<"a", "b">>) = <<f>>

AnyFailure ==
    \/ mainPc = "failed" /\ oldResult = <<>>
    \/ \E f \in DOMAIN fontPc : fontPc[f] = "failed"
    \/ \E id \in DOMAIN tplPc : tplPc[id] = "failed"

\* C5: when buildOldTemplateIndex or buildTemplateIndex fails (an unreadable
\* file, a font that does not parse, a malformed definition, a throwing
\* script, a hashing failure) main fails and no output file is written; a
\* file is written only after both builders succeeded.
NoPartialOutput ==
    /\ written # <<>> => oldResult # <<>> /\ buildPc = "resolved"
    /\ buildPc = "rejected" => mainPc = "failed"
    /\ AnyFailure => mainPc = "failed" /\ written = <<>> /\ buildPc # "resolved"

\* the old builder and the fonts succeeded, then a template made the build fail
NoPartialOutputWitness ==
    /\ oldResult # <<>>
    /\ resultFontObj # <<>>
    /\ \E id \in DOMAIN tplPc : tplPc[id] = "failed"
    /\ mainPc = "failed" /\ written = <<>>

\* C8: once a template's font lookup has run, every font callback is done,
\* the font-name index and the font-entry table are complete and the index is
\* not written again; when a font's indexing fails no template is processed.
IndexWrittenBeforeRead ==
    /\ lookedUp # {} =>
         /\ \A f \in DOMAIN fontPc : fontPc[f] = "done"
         /\ DOMAIN resultFontObj = DOMAIN fontPc
         /\ fontSets = setsAtLookup
    /\ (\E f \in DOMAIN fontPc : fontPc[f] = "failed") =>
         templatesDir = <<>> /\ tplPc = <<>> /\ lookedUp = {}

\* two fonts were indexed and then two templates looked fonts up
IndexWrittenBeforeReadWitness ==
    /\ Cardinality(lookedUp) = 2
    /\ Cardinality(DOMAIN resultFontObj) = 2
    /\ fontSets >= 4

\* the font-name index when the fonts' operations complete in listing order
RECURSIVE IndexInOrder(_, _)
IndexInOrder(map, listing) ==
    IF listing = <<>> THEN map
    ELSE LET f == Head(listing)
         IN IndexInOrder(
                IF f \in SelectedFonts(fontsDir)
                THEN SetNames(map, getFontInfo(fontsDir[f]).name, f) ELSE map,
                Tail(listing))

\* C6: the manifest is the same for every completion order of the fonts' and
\* the templates' operations: it is the one obtained when they complete in
\* the order of the directory listing.
ManifestIndependentOfCompletionOrder ==
    buildPc = "resolved" =>
        /\ manifest.fonts =
              [f \in SelectedFonts(fontsDir) |->
                  [md5 |-> md5(fontsDir[f].bytes), size |-> Len(fontsDir[f].bytes),
                   name |-> getFontInfo(fontsDir[f]).name]]
        /\ manifest.templates = TemplatesOf(templatesDir, IndexInOrder(<<>>, FontListing))

\* the font values of the text elements of a definition file
ReferencedFonts(e) ==
    IF Classify(e) = "template"
    THEN IF "elements" \in DOMAIN e.template
         THEN { x.font : x \in { y \in Range(e.template.elements) : IsTextWithFont(y) } }
         ELSE {}
    ELSE IF "text" \in DOMAIN e.old
         THEN { x.font : x \in { y \in Range(e.old.text) : HasFont(y) } }
         ELSE {}

\* the font files the referenced fonts resolve to in the index
ResolvedFiles(e) ==
    { fontNameMap[ToLowerCase(r)] : r \in { q \in ReferencedFonts(e) : ToLowerCase(q) \in DOMAIN fontNameMap } }

\* C7: dependentFonts of a template or legacy template is the duplicate-free
\* collection of the font files its text fonts resolve to, each a key of the
\* fonts mapping, and it is attached exactly when that collection is not empty.
DependentFontsAreIndexedFiles ==
    buildPc = "resolved" =>
        \A id \in DOMAIN Templates :
            Templates[id].type = "template" =>
                LET files == ResolvedFiles(templatesDir[id])
                    t == Templates[id]
                IN /\ ("dependentFonts" \in DOMAIN t) <=> (files # {})
                   /\ "dependentFonts" \in DOMAIN t =>
                        /\ Range(t.dependentFonts) = files
                        /\ Len(t.dependentFonts) = Cardinality(files)
                        /\ files \subseteq DOMAIN manifest.fonts

\* the names a font file has
PresentNames(font) == SelectSeq(GetFontNames(font), LAMBDA n : n # Null)

\* C10: a font file that lacks some of the four names is indexed all the
\* same, with the lower-cased names it has; the missing name rejects nothing.
MissingFontNameTolerated ==
    \A f \in DOMAIN fontPc :
        Null \in Range(GetFontNames(fontsDir[f])) =>
            /\ fontErr[f] # "TypeError"
            /\ fontPc[f] = "done" =>
                  resultFontObj[f].name =
                      Dedup([i \in 1..Len(PresentNames(fontsDir[f])) |->
                                ToLowerCase(PresentNames(fontsDir[f])[i])])

====
